---- MODULE Spec2Model ----
(***************************************************************************)
(* fluvio-command: CommandExt for std::process::Command (src/src/lib.rs).  *)
(*                                                                         *)
(* One Command value is followed through its life: it is built             *)
(* (Command::new, arg), optionally configured (inherit), rendered          *)
(* (display, log, print) and run (result).  Strings and byte buffers are   *)
(* sequences of byte values 0..255.  What the operating system does when   *)
(* the command is spawned is the input `child`, fixed when the command is  *)
(* created.                                                                *)
(***************************************************************************)
EXTENDS Integers, Sequences, FiniteSets

\* ------------------------------------------------------------------ bounds
\* most arguments given to one Command
MaxArgs == 2
\* most bytes the child writes to stderr before its message
MaxPad == 2

\* ----------------------------------------------------------------- strings
\* "Kubernetes cluster unreachable"
Needle ==
    <<75, 117, 98, 101, 114, 110, 101, 116, 101, 115, 32, 99, 108, 117, 115,
      116, 101, 114, 32, 117, 110, 114, 101, 97, 99, 104, 97, 98, 108, 101>>

\* "Kubernetes cluster reachable": a helm message that must not match
NearMiss ==
    <<75, 117, 98, 101, 114, 110, 101, 116, 101, 115, 32, 99, 108, 117, 115,
      116, 101, 114, 32, 114, 101, 97, 99, 104, 97, 98, 108, 101>>

\* "echo", "foobar", "two three", and an argument holding a double quote and
\* a backslash: a"b\
Echo == <<101, 99, 104, 111>>
Foobar == <<102, 111, 111, 98, 97, 114>>
TwoThree == <<116, 119, 111, 32, 116, 104, 114, 101, 101>>
Quoted == <<97, 34, 98, 92>>

Programs == {Echo, Foobar}
ArgSet == {TwoThree, Quoted}

RECURSIVE SeqsUpTo(_, _)
SeqsUpTo(S, n) ==
    IF n = 0 THEN {<<>>}
    ELSE LET shorter == SeqsUpTo(S, n - 1)
         IN  shorter \cup {Append(s, x) : s \in shorter, x \in S}

\* Option<T>: None is <<>>, Some(x) is <<x>>
None == <<>>
Some(x) == <<x>>

\* ------------------------------------------------- the child process (input)
\* bytes the child may write ahead of its message: the two bytes of U+00E9
\* (0xC3 0xA9), which are valid UTF-8 only as the pair C3 A9
PadBytes == {195, 169}
\* the child's message: nothing, "Error: Kubernetes cluster unreachable\n",
\* or the near miss
Messages ==
    {<<>>, <<69, 114, 114, 111, 114, 58, 32>> \o Needle \o <<10>>, NearMiss}
Stderrs == {pre \o msg : pre \in SeqsUpTo(PadBytes, MaxPad), msg \in Messages}
Stdouts == {<<>>, <<111, 10>>}
ExitCodes == {0, 1, 2}
IoErrors == {"NotFound", "PermissionDenied"}

\* what happens when the command is spawned and awaited: the spawn fails with
\* an OS error, or the child writes its streams and ends with an exit code
\* (Some) or by a signal (None)
Children ==
    [spawn : {"failed"}, error : IoErrors]
    \cup [spawn : {"ok"},
          code : {None} \cup {Some(c) : c \in ExitCodes},
          stdout : Stdouts, stderr : Stderrs]

\* ---------------------------------------------------------------- display
HexDigit(n) == IF n < 10 THEN 48 + n ELSE 87 + n

\* one byte as `{:?}` writes it inside a quoted string
EscapeByte(b) ==
    CASE b = 9 -> <<92, 116>>
      [] b = 10 -> <<92, 110>>
      [] b = 13 -> <<92, 114>>
      [] b = 34 -> <<92, 34>>
      [] b = 39 -> <<92, 39>>
      [] b = 92 -> <<92, 92>>
      [] b >= 32 /\ b <= 126 /\ b \notin {34, 39, 92} -> <<b>>
      [] OTHER -> <<92, 120, HexDigit(b \div 16), HexDigit(b % 16)>>

RECURSIVE Escape(_)
Escape(s) == IF s = <<>> THEN <<>> ELSE EscapeByte(Head(s)) \o Escape(Tail(s))

\* `{:?}` of one program or argument string: quoted and escaped
DebugStr(s) == <<34>> \o Escape(s) \o <<34>>

RECURSIVE DebugArgs(_)
DebugArgs(as) ==
    IF as = <<>> THEN <<>> ELSE <<32>> \o DebugStr(Head(as)) \o DebugArgs(Tail(as))

\* format!("{:?}", self): the program, then each argument, space separated
DebugCommand(prog, as) == DebugStr(prog) \o DebugArgs(as)

\* .replace("\"", "")
RECURSIVE RemoveQuotes(_)
RemoveQuotes(s) ==
    IF s = <<>> THEN <<>>
    ELSE IF Head(s) = 34 THEN RemoveQuotes(Tail(s))
    ELSE <<Head(s)>> \o RemoveQuotes(Tail(s))

display(prog, as) == RemoveQuotes(DebugCommand(prog, as))

\* ------------------------------------------------------- String::from_utf8
IsCont(b) == b >= 128 /\ b <= 191

\* the length a UTF-8 sequence has by its first byte; 0 for a byte that
\* starts none
Utf8CharWidth(b) ==
    IF b < 128 THEN 1
    ELSE IF b >= 194 /\ b <= 223 THEN 2
    ELSE IF b >= 224 /\ b <= 239 THEN 3
    ELSE IF b >= 240 /\ b <= 244 THEN 4
    ELSE 0

\* the second byte of a 3- or 4-byte sequence is in the range its first
\* byte allows (no overlong forms, no surrogates, nothing above U+10FFFF)
SecondOk(first, second) ==
    \/ first = 224 /\ second >= 160 /\ second <= 191
    \/ first >= 225 /\ first <= 236 /\ IsCont(second)
    \/ first = 237 /\ second >= 128 /\ second <= 159
    \/ first >= 238 /\ first <= 239 /\ IsCont(second)
    \/ first = 240 /\ second >= 144 /\ second <= 191
    \/ first >= 241 /\ first <= 243 /\ IsCont(second)
    \/ first = 244 /\ second >= 128 /\ second <= 143

Utf8Ok == [ok |-> TRUE, valid_up_to |-> 0, error_len |-> None]
Utf8Error(upTo, len) == [ok |-> FALSE, valid_up_to |-> upTo, error_len |-> len]

\* validation from the 1-based position i, where a character starts;
\* valid_up_to counts the bytes before it
RECURSIVE Utf8From(_, _)
Utf8From(v, i) ==
    IF i > Len(v) THEN Utf8Ok
    ELSE LET first == v[i]
             w == Utf8CharWidth(first)
             n == Len(v)
         IN  IF w = 1 THEN Utf8From(v, i + 1)
             ELSE IF w = 0 THEN Utf8Error(i - 1, Some(1))
             ELSE IF i + 1 > n THEN Utf8Error(i - 1, None)
             ELSE IF w = 2 THEN
                 IF IsCont(v[i + 1]) THEN Utf8From(v, i + 2)
                 ELSE Utf8Error(i - 1, Some(1))
             ELSE IF ~SecondOk(first, v[i + 1]) THEN Utf8Error(i - 1, Some(1))
             ELSE IF i + 2 > n THEN Utf8Error(i - 1, None)
             ELSE IF ~IsCont(v[i + 2]) THEN Utf8Error(i - 1, Some(2))
             ELSE IF w = 3 THEN Utf8From(v, i + 3)
             ELSE IF i + 3 > n THEN Utf8Error(i - 1, None)
             ELSE IF ~IsCont(v[i + 3]) THEN Utf8Error(i - 1, Some(3))
             ELSE Utf8From(v, i + 4)

from_utf8(v) == Utf8From(v, 1)

RECURSIVE Decimal(_)
Decimal(n) ==
    IF n < 10 THEN <<48 + n>> ELSE Decimal(n \div 10) \o <<48 + (n % 10)>>

\* e.to_string() of the decoding error:
\*   "invalid utf-8 sequence of N bytes from index I"
\*   "incomplete utf-8 byte sequence from index I"
Utf8ErrorToString(e) ==
    IF e.error_len # None
    THEN <<105, 110, 118, 97, 108, 105, 100, 32, 117, 116, 102, 45, 56, 32,
           115, 101, 113, 117, 101, 110, 99, 101, 32, 111, 102, 32>>
         \o Decimal(e.error_len[1])
         \o <<32, 98, 121, 116, 101, 115, 32, 102, 114, 111, 109, 32, 105,
              110, 100, 101, 120, 32>>
         \o Decimal(e.valid_up_to)
    ELSE <<105, 110, 99, 111, 109, 112, 108, 101, 116, 101, 32, 117, 116,
           102, 45, 56, 32, 98, 121, 116, 101, 32, 115, 101, 113, 117, 101,
           110, 99, 101, 32, 102, 114, 111, 109, 32, 105, 110, 100, 101, 120,
           32>>
         \o Decimal(e.valid_up_to)

\* str::contains
Contains(s, pat) ==
    \E i \in 0..(Len(s) - Len(pat)) : SubSeq(s, i + 1, i + Len(pat)) = pat

\* ------------------------------------------------------------- log events
Event(level, text, command) == [level |-> level, text |-> text, command |-> command]

\* ------------------------------------------------ check_connectivity_error
\* Result<(), CommandConnectivityError>: Ok(()) or Err(Error(text)), with the
\* events logged on the way
ConnOk == [ok |-> TRUE, error |-> <<>>, logged |-> <<>>]
ConnErr(text, logged) == [ok |-> FALSE, error |-> text, logged |-> logged]

\* a decoding failure swallowed (if let Ok(..) = String::from_utf8(..))
check_connectivity_error_Lossy(stderr) ==
    IF stderr # <<>>
    THEN LET decoded == from_utf8(stderr)
         IN  IF decoded.ok /\ Contains(stderr, Needle)
             THEN ConnErr(stderr,
                          <<Event("error", "kubernetes cluster unreachable", <<>>)>>)
             ELSE ConnOk
    ELSE ConnOk

\* the pattern cut short: "Kubernetes cluster"
check_connectivity_error_Loose(stderr) ==
    IF stderr # <<>>
    THEN LET decoded == from_utf8(stderr)
         IN  IF ~decoded.ok THEN ConnErr(Utf8ErrorToString(decoded), <<>>)
             ELSE IF Contains(stderr, SubSeq(Needle, 1, 18))
             THEN ConnErr(stderr,
                          <<Event("error", "kubernetes cluster unreachable", <<>>)>>)
             ELSE ConnOk
    ELSE ConnOk

check_connectivity_error(stderr) ==
    IF stderr # <<>>
    THEN LET decoded == from_utf8(stderr)
         IN  IF ~decoded.ok THEN ConnErr(Utf8ErrorToString(decoded), <<>>)
             ELSE IF Contains(stderr, Needle)
             THEN ConnErr(stderr,
                          <<Event("error", "kubernetes cluster unreachable", <<>>)>>)
             ELSE ConnOk
    ELSE ConnOk

\* ------------------------------------------------------- Command::output
\* the Output the runner hands back for a child that was spawned: the exit
\* status and the captured streams, which are empty for a stream the child
\* inherited from the parent
Output(c, stdio) ==
    [code |-> c.code,
     stdout |-> IF stdio = "inherit" THEN <<>> ELSE c.stdout,
     stderr |-> IF stdio = "inherit" THEN <<>> ELSE c.stderr]

\* io::Result<Output>
output(c, stdio) ==
    IF c.spawn = "failed" THEN [ok |-> FALSE, error |-> c.error]
    ELSE [ok |-> TRUE, output |-> Output(c, stdio)]

\* ------------------------------------------------------ CommandExt::result
OkResult(out) == [tag |-> "Ok", output |-> out]
CommandError(command, source) == [tag |-> "Err", command |-> command, source |-> source]
Terminated == [kind |-> "Terminated"]
ExitError(code, out) == [kind |-> "ExitError", code |-> code, output |-> out]
IoError(e) == [kind |-> "IoError", error |-> e]
ConnectivityError(text) == [kind |-> "ConnectivityError", error |-> text]

\* the heuristic consulted ahead of the match on the exit code
classify_HeuristicFirst(command, out) ==
    LET helm == check_connectivity_error(out.stderr)
    IN  IF ~helm.ok
        THEN [ret |-> CommandError(command, ConnectivityError(helm.error)),
              logged |-> helm.logged]
        ELSE IF out.code = Some(0) THEN [ret |-> OkResult(out), logged |-> <<>>]
        ELSE IF out.code = None
        THEN [ret |-> CommandError(command, Terminated),
              logged |-> <<Event("error", "command error occured", command)>>]
        ELSE [ret |-> CommandError(command, ExitError(out.code[1], out)),
              logged |-> <<Event("error", "an error occured with command", command)>>]

\* output.stderr moved into the heuristic instead of cloned
classify_StderrMoved(command, out) ==
    IF out.code = Some(0) THEN [ret |-> OkResult(out), logged |-> <<>>]
    ELSE IF out.code = None
    THEN [ret |-> CommandError(command, Terminated),
          logged |-> <<Event("error", "command error occured", command)>>]
    ELSE LET code == out.code[1]
             helm == check_connectivity_error(out.stderr)
             logged == <<Event("error", "an error occured with command", command)>>
                       \o helm.logged
         IN  IF ~helm.ok
             THEN [ret |-> CommandError(command, ConnectivityError(helm.error)),
                   logged |-> logged]
             ELSE [ret |-> CommandError(command,
                                        ExitError(code, [out EXCEPT !.stderr = <<>>])),
                   logged |-> logged]

\* a missing exit code read as -1 (code().unwrap_or(-1)) and sent down the
\* nonzero arm
classify_NoneAsCode(command, out) ==
    IF out.code = Some(0) THEN [ret |-> OkResult(out), logged |-> <<>>]
    ELSE LET code == IF out.code = None THEN -1 ELSE out.code[1]
             helm == check_connectivity_error(out.stderr)
             logged == <<Event("error", "an error occured with command", command)>>
                       \o helm.logged
         IN  IF ~helm.ok
             THEN [ret |-> CommandError(command, ConnectivityError(helm.error)),
                   logged |-> logged]
             ELSE [ret |-> CommandError(command, ExitError(code, out)),
                   logged |-> logged]

\* every nonzero exit code reported as ExitError, the heuristic never run
classify_NoHeuristic(command, out) ==
    IF out.code = Some(0) THEN [ret |-> OkResult(out), logged |-> <<>>]
    ELSE IF out.code = None
    THEN [ret |-> CommandError(command, Terminated),
          logged |-> <<Event("error", "command error occured", command)>>]
    ELSE [ret |-> CommandError(command, ExitError(out.code[1], out)),
          logged |-> <<Event("error", "an error occured with command", command)>>]

\* success for every child that exited by itself (Some(_) => Ok(output))
classify_SuccessIfExited(command, out) ==
    IF out.code # None THEN [ret |-> OkResult(out), logged |-> <<>>]
    ELSE [ret |-> CommandError(command, Terminated),
          logged |-> <<Event("error", "command error occured", command)>>]

\* the match on output.status.code(): the value returned and the events logged
classify(command, out) ==
    IF out.code = Some(0) THEN [ret |-> OkResult(out), logged |-> <<>>]
    ELSE IF out.code = None
    THEN [ret |-> CommandError(command, Terminated),
          logged |-> <<Event("error", "command error occured", command)>>]
    ELSE LET code == out.code[1]
             helm == check_connectivity_error(out.stderr)
             logged == <<Event("error", "an error occured with command", command)>>
                       \o helm.logged
         IN  IF ~helm.ok
             THEN [ret |-> CommandError(command, ConnectivityError(helm.error)),
                   logged |-> logged]
             ELSE [ret |-> CommandError(command, ExitError(code, out)),
                   logged |-> logged]

\* a spawn failure reported as Terminated, its OS error dropped
result_IoErrorAsTerminated(prog, as, stdio, c) ==
    LET command == display(prog, as)
        ran == output(c, stdio)
        info == <<Event("info", "executing command", command)>>
    IN  IF ~ran.ok
        THEN [ret |-> CommandError(command, Terminated), logged |-> info]
        ELSE LET r == classify(command, ran.output)
             IN  [ret |-> r.ret, logged |-> info \o r.logged]

\* the error's command taken as format!("{:?}", self), quotes left in
result_DebugCommand(prog, as, stdio, c) ==
    LET command == DebugCommand(prog, as)
        ran == output(c, stdio)
        info == <<Event("info", "executing command", display(prog, as))>>
    IN  IF ~ran.ok
        THEN [ret |-> CommandError(command, IoError(ran.error)), logged |-> info]
        ELSE LET r == classify(command, ran.output)
             IN  [ret |-> r.ret, logged |-> info \o r.logged]

\* result(): self.output().map_err(..).and_then(..)
result(prog, as, stdio, c) ==
    LET command == display(prog, as)
        ran == output(c, stdio)
        info == <<Event("info", "executing command", command)>>
    IN  IF ~ran.ok
        THEN [ret |-> CommandError(command, IoError(ran.error)), logged |-> info]
        ELSE LET r == classify(command, ran.output)
             IN  [ret |-> r.ret, logged |-> info \o r.logged]

\* ------------------------------------------------------------------- state
VARIABLES
    program,    \* the Command's program
    args,       \* the Command's arguments, in order
    stdio,      \* "piped" (output()'s default) or "inherit" (after inherit())
    child,      \* what the OS does when this Command is spawned (input)
    last,       \* the operation called last
    returned,   \* what it returned: None for a builder (&mut Self), else Some
    emitted     \* the log events and stdout lines it wrote

vars == <<program, args, stdio, child, last, returned, emitted>>

TypeOK ==
    /\ program \in Programs
    /\ args \in SeqsUpTo(ArgSet, MaxArgs)
    /\ stdio \in {"piped", "inherit"}
    /\ child \in Children
    /\ last \in {"new", "arg", "inherit", "log", "print", "display", "result"}
    /\ Len(returned) <= 1

\* Command::new(program), in an environment that decides the child's fate
Init ==
    /\ program \in Programs
    /\ args = <<>>
    /\ stdio = "piped"
    /\ child \in Children
    /\ last = "new"
    /\ returned = None
    /\ emitted = <<>>

\* Command::arg(a)
Arg(a) ==
    /\ Len(args) < MaxArgs
    /\ args' = Append(args, a)
    /\ last' = "arg"
    /\ returned' = None
    /\ emitted' = <<>>
    /\ UNCHANGED <<program, stdio, child>>

\* inherit(): stdout and stderr are the parent's
Inherit ==
    /\ stdio' = "inherit"
    /\ last' = "inherit"
    /\ returned' = None
    /\ emitted' = <<>>
    /\ UNCHANGED <<program, args, child>>

\* log(): debug!("Command> {:?}", self.display())
Log ==
    /\ emitted' = <<Event("debug", "Command> {:?}", DebugStr(display(program, args)))>>
    /\ last' = "log"
    /\ returned' = None
    /\ UNCHANGED <<program, args, stdio, child>>

\* print(): println!("Command> {:?}", self.display())
print ==
    /\ emitted' = <<Event("stdout", "Command> {:?}", DebugStr(display(program, args)))>>
    /\ last' = "print"
    /\ returned' = None
    /\ UNCHANGED <<program, args, stdio, child>>

\* display()
Display ==
    /\ returned' = Some(display(program, args))
    /\ last' = "display"
    /\ emitted' = <<>>
    /\ UNCHANGED <<program, args, stdio, child>>

\* result()
Result ==
    /\ LET r == result(program, args, stdio, child)
       IN  /\ returned' = Some(r.ret)
           /\ emitted' = r.logged
    /\ last' = "result"
    /\ UNCHANGED <<program, args, stdio, child>>

Next ==
    \/ \E a \in ArgSet : Arg(a)
    \/ Inherit
    \/ Log
    \/ print
    \/ Display
    \/ Result

Spec == Init /\ [][Next]_vars

\* ------------------------------------------------------------- properties
\* result() was the operation called last, and Ret is what it returned
Ran == last = "result"
Ret == returned[1]
\* the runner produced a raw outcome, Raw
Spawned == child.spawn = "ok"
Raw == Output(child, stdio)
ExitedNonzero == Spawned /\ Raw.code # None /\ Raw.code # Some(0)
InfoOnly == Len(emitted) = 1 /\ emitted[1].level = "info"

\* C1: an exit code of 0 gives Ok carrying exactly the stdout and stderr the
\* runner produced, whatever stderr holds; the heuristic is not consulted
\* (nothing but the "executing command" event is logged).
C1_ZeroIsSuccess ==
    (Ran /\ Spawned /\ Raw.code = Some(0)) =>
        /\ Ret.tag = "Ok"
        /\ Ret.output.stdout = Raw.stdout
        /\ Ret.output.stderr = Raw.stderr
        /\ Ret.output.code = Some(0)
        /\ InfoOnly

C1_Witness ==
    /\ Ran /\ Spawned /\ Raw.code = Some(0)
    /\ Contains(Raw.stderr, Needle)
    /\ ~from_utf8(Raw.stderr).ok
    /\ Ret.tag = "Ok"

\* C2 as stated: a nonzero exit code with a stderr that does not contain the
\* pattern gives ExitError with that code and the captured streams.
C2_NoPatternIsExitError ==
    (Ran /\ ExitedNonzero /\ ~Contains(Raw.stderr, Needle)) =>
        /\ Ret.tag = "Err"
        /\ Ret.source.kind = "ExitError"
        /\ Ret.source.code = Raw.code[1]
        /\ Ret.source.output.stdout = Raw.stdout
        /\ Ret.source.output.stderr = Raw.stderr

\* C2 amended: a nonzero exit code with a stderr that is valid UTF-8 (the
\* empty stderr included) and does not contain the pattern gives ExitError
\* with that code and the captured streams, byte for byte.
C2_DecodableNoPatternIsExitError ==
    (Ran /\ ExitedNonzero /\ from_utf8(Raw.stderr).ok
         /\ ~Contains(Raw.stderr, Needle)) =>
        /\ Ret.tag = "Err"
        /\ Ret.source.kind = "ExitError"
        /\ Ret.source.code = Raw.code[1]
        /\ Ret.source.output.stdout = Raw.stdout
        /\ Ret.source.output.stderr = Raw.stderr

C2_Witness ==
    /\ Ran /\ ExitedNonzero
    /\ Raw.code = Some(2)
    /\ Raw.stdout # <<>>
    /\ Raw.stderr = <<195, 169>> \o NearMiss
    /\ Ret.tag = "Err"
    /\ Ret.source.kind = "ExitError"

\* C3: a nonzero exit code with a stderr that contains the pattern gives
\* ConnectivityError, never ExitError, whatever the code.
C3_PatternIsConnectivityError ==
    (Ran /\ ExitedNonzero /\ Contains(Raw.stderr, Needle)) =>
        /\ Ret.tag = "Err"
        /\ Ret.source.kind = "ConnectivityError"

C3_Witness ==
    /\ Ran /\ ExitedNonzero
    /\ Raw.code = Some(2)
    /\ Contains(Raw.stderr, Needle)
    /\ from_utf8(Raw.stderr).ok
    /\ Ret.tag = "Err"
    /\ Ret.source.kind = "ConnectivityError"
    /\ Ret.source.error = Raw.stderr

\* C4: no exit code gives Terminated with no output attached, whatever the
\* streams hold; the heuristic is not consulted.
C4_NoCodeIsTerminated ==
    (Ran /\ Spawned /\ Raw.code = None) =>
        /\ Ret.tag = "Err"
        /\ Ret.source.kind = "Terminated"
        /\ DOMAIN Ret.source = {"kind"}
        /\ \A i \in 1..Len(emitted) : emitted[i].text # "kubernetes cluster unreachable"

C4_Witness ==
    /\ Ran /\ Spawned /\ Raw.code = None
    /\ Contains(Raw.stderr, Needle)
    /\ Raw.stdout # <<>>
    /\ Ret.source.kind = "Terminated"

\* C5: a spawn failure gives IoError wrapping the runner's OS error, and
\* nothing else: no exit code is looked at and the heuristic is not run.
C5_SpawnFailureIsIoError ==
    (Ran /\ ~Spawned) =>
        /\ Ret.tag = "Err"
        /\ Ret.source.kind = "IoError"
        /\ Ret.source.error = child.error
        /\ InfoOnly

C5_Witness ==
    /\ Ran /\ ~Spawned
    /\ child.error = "NotFound"
    /\ program = Foobar /\ args = <<>>
    /\ Ret.source.kind = "IoError"
    /\ Ret.command = Foobar

\* C6: every failure result() returns carries the string display() renders
\* for the command that was run.
C6_FailureCarriesDisplay ==
    (Ran /\ Ret.tag = "Err") => Ret.command = display(program, args)

C6_Witness ==
    /\ Ran /\ Ret.tag = "Err"
    /\ Ret.source.kind = "ConnectivityError"
    /\ args = <<TwoThree, Quoted>>
    /\ Ret.command = display(program, args)

\* C7: result() returns Ok exactly when the exit code is present and 0; any
\* other outcome is a failure of exactly one of the four kinds, and the code
\* an ExitError carries is never 0.
C7_OutcomePartition ==
    Ran =>
        /\ Ret.tag \in {"Ok", "Err"}
        /\ (Ret.tag = "Ok") <=> (Spawned /\ Raw.code = Some(0))
        /\ Ret.tag = "Err" =>
              /\ Ret.source.kind \in
                    {"Terminated", "ExitError", "IoError", "ConnectivityError"}
              /\ (Ret.source.kind = "IoError") <=> ~Spawned
              /\ (Ret.source.kind = "Terminated") <=> (Spawned /\ Raw.code = None)
              /\ (Ret.source.kind \in {"ExitError", "ConnectivityError"})
                    <=> ExitedNonzero
              /\ Ret.source.kind = "ExitError" => Ret.source.code # 0

C7_Witness ==
    /\ Ran /\ Ret.tag = "Err"
    /\ Ret.source.kind = "ExitError"
    /\ Ret.source.code = 1
    /\ stdio = "inherit"

\* C8: a nonzero exit code with a stderr that is not valid UTF-8 is not
\* reported as the ExitError of a stderr that decodes and does not match: the
\* failure carries the decoder's message.
C8_DecodeFailureSurfaced ==
    (Ran /\ ExitedNonzero /\ ~from_utf8(Raw.stderr).ok) =>
        /\ Ret.tag = "Err"
        /\ Ret.source.kind # "ExitError"
        /\ Ret.source.kind = "ConnectivityError"
        /\ Ret.source.error = Utf8ErrorToString(from_utf8(Raw.stderr))
        /\ Ret.source.error # Raw.stderr

C8_Witness ==
    /\ Ran /\ ExitedNonzero
    /\ Raw.stderr = <<195>> \o NearMiss
    /\ Ret.source.kind = "ConnectivityError"
    /\ Ret.source.error =
          <<105, 110, 118, 97, 108, 105, 100, 32, 117, 116, 102, 45, 56, 32,
            115, 101, 113, 117, 101, 110, 99, 101, 32, 111, 102, 32, 49, 32,
            98, 121, 116, 101, 115, 32, 102, 114, 111, 109, 32, 105, 110, 100,
            101, 120, 32, 48>>

\* program followed by the arguments, single spaces between, nothing added
RECURSIVE PlainArgs(_)
PlainArgs(as) ==
    IF as = <<>> THEN <<>> ELSE <<32>> \o Head(as) \o PlainArgs(Tail(as))

PlainJoin(prog, as) == prog \o PlainArgs(as)

\* C9: display() renders the program followed by the arguments separated by
\* single spaces, with no quote or escape character added.
C9_DisplayIsPlainJoin ==
    last = "display" => returned[1] = PlainJoin(program, args)

\* C10: for a stderr that is valid UTF-8 the heuristic matches exactly when
\* the text is non-empty and contains the pattern, and the match carries the
\* whole text; otherwise the nonzero exit is an ExitError, as it is for an
\* empty stderr.
C10_HeuristicMatchesExactly ==
    (Ran /\ ExitedNonzero /\ from_utf8(Raw.stderr).ok) =>
        LET matches == Raw.stderr # <<>> /\ Contains(Raw.stderr, Needle)
        IN  /\ matches => /\ Ret.source.kind = "ConnectivityError"
                          /\ Ret.source.error = Raw.stderr
                          /\ emitted[Len(emitted)].text = "kubernetes cluster unreachable"
            /\ ~matches => /\ Ret.source.kind = "ExitError"
                           /\ Len(emitted) = 2

C10_Witness ==
    /\ Ran /\ ExitedNonzero
    /\ stdio = "piped"
    /\ Raw.stderr = <<>>
    /\ Ret.source.kind = "ExitError"
    /\ Ret.source.output.stderr = <<>>

====
